---------------------------- MODULE Spec2Model ----------------------------
(***************************************************************************)
(* Shared-memory heap allocator and table of contents (SMEM) of            *)
(* arch/arm/mach-msm/smem.c: smem_phys_to_virt, smem_find, smem_alloc2,    *)
(* smem_get_entry and restart_notifier_cb, run by an applications context  *)
(* and a peer processor against one shared heap header and item table.     *)
(***************************************************************************)
EXTENDS Integers, Sequences, FiniteSets, TLC

(***************************************************************************)
(* Bounds of the model.                                                    *)
(***************************************************************************)
\* number of item slots of the table (SMEM_NUM_ITEMS, scaled down)
SMEM_NUM_ITEMS == 4
\* last identifier of the fixed range (SMEM_FIXED_ITEM_LAST, scaled down)
SMEM_FIXED_ITEM_LAST == 1
\* bytes of heap left when the heap is opened (heap_remaining at start)
HeapSize == 16
\* width of `unsigned`, phys_addr_t and uintptr_t: 32 bits on the target,
\* scaled down so that every sum stays within 32-bit signed arithmetic
WordBits == 16

(***************************************************************************)
(* Program and platform constants.                                         *)
(***************************************************************************)
UWRAP == 2 ^ WordBits
\* (type)~0
UMAX == UWRAP - 1
NULL == 0
\* virtual and physical base and size of the primary shared region
MSM_SHARED_RAM_BASE == 36864
msm_shared_ram_phys == 4096
MSM_SHARED_RAM_SIZE == 256
\* heap_info.free_offset when the heap is opened
HeapStart == 64
\* an auxiliary region: physical base, size, virtual base
AuxPhys == 8192
AuxSize == 512
AuxVirt == 40960

\* the application processor's context, and the peer processor
Apps == "apps"
Modem == "modem"
Procs == {Apps, Modem}
Free == "free"

\* identifiers and sizes a caller on the application processor passes: every
\* slot and one past the table; sizes that align to the same, to another and,
\* wrapping, to no size
CallIds == 0 .. SMEM_NUM_ITEMS
CallSizes == {1, 8, UMAX}
\* the peer allocates the first dynamic item, of one size
PeerIds == {SMEM_FIXED_ITEM_LAST + 1}
PeerSizes == {8}
IdsOf(p) == IF p = Apps THEN CallIds ELSE PeerIds
SizesOf(p) == IF p = Apps THEN CallSizes ELSE PeerSizes

(***************************************************************************)
(* Pure helpers.                                                           *)
(***************************************************************************)
\* x & ~(m - 1) for a power of two m
MaskLow(x, m) == x - (x % m)

\* ALIGN(x, 8) on an unsigned of WordBits bits: ((x) + 7) & ~7, wrapping
ALIGN8(x) == MaskLow((x + 7) % UWRAP, 8)

\* toc[id].reserved & BASE_ADDR_MASK, BASE_ADDR_MASK = ~0x3
BaseAddr(reserved) == MaskLow(reserved, 4)

OVERFLOW_ADD_UNSIGNED_NoCheck(a, b) == FALSE

\* ((type)~0 - (a)) < (b)
OVERFLOW_ADD_UNSIGNED(a, b) == (UMAX - a) < b

\* one region descriptor of smem_areas
Area(p, s, v) == [phys_addr |-> p, size |-> s, virt_addr |-> v]

\* the loop of smem_phys_to_virt over smem_areas[i .. num_smem_areas - 1]
RECURSIVE ScanAreas(_, _, _, _)
ScanAreas(areas, i, base, offset) ==
    IF i > Len(areas) THEN NULL
    ELSE LET phys_addr == areas[i].phys_addr
             size == areas[i].size
         IN  IF \/ base < phys_addr
                \/ (base + offset) % UWRAP >= (phys_addr + size) % UWRAP
             THEN ScanAreas(areas, i + 1, base, offset)
             ELSE IF OVERFLOW_ADD_UNSIGNED(areas[i].virt_addr, offset)
                  THEN NULL
                  ELSE (areas[i].virt_addr + offset) % UWRAP

smem_phys_to_virt_NoDefault(areas, base, offset) ==
    IF OVERFLOW_ADD_UNSIGNED(base, offset) THEN NULL
    ELSE ScanAreas(areas, 1, base, offset)

\* smem_phys_to_virt(base, offset); areas = << >> stands for smem_areas == NULL
smem_phys_to_virt(areas, base, offset) ==
    IF OVERFLOW_ADD_UNSIGNED(base, offset) THEN NULL
    ELSE IF areas = << >>
         THEN IF base >= msm_shared_ram_phys
                 /\ (base + offset) % UWRAP
                      < (msm_shared_ram_phys + MSM_SHARED_RAM_SIZE) % UWRAP
              THEN IF OVERFLOW_ADD_UNSIGNED(MSM_SHARED_RAM_BASE, offset)
                   THEN NULL
                   ELSE (MSM_SHARED_RAM_BASE + offset) % UWRAP
              ELSE NULL
         ELSE ScanAreas(areas, 1, base, offset)

\* (void *)(MSM_SHARED_RAM_BASE + toc[id].offset) of smem_alloc2
HeapAddr(offset) == (MSM_SHARED_RAM_BASE + offset) % UWRAP

VARIABLES
    heap_info,              \* shared->heap_info: initialized, free_offset, heap_remaining
    toc,                    \* shared->heap_toc: allocated, offset, size, reserved per slot
    lock,                   \* owner of remote_spinlock, or Free
    spinlocks_initialized,  \* the application processor's flag
    smem_areas,             \* the region registry, << >> while NULL
    peer,                   \* the peer processor: "up", "down", "notified"
    pc,                     \* each context's position
    op,                     \* the entry point of its current or last call
    id,                     \* that call's identifier
    size_in,                \* that call's size argument, as passed
    ret,                    \* that call's result
    sz,                     \* *size of smem_get_entry
    use_spinlocks,          \* smem_get_entry's local copy of the flag
    prev,                   \* history: {[size, ret]} of the call this context made just
                            \* before, when it was smem_alloc2 on the same id, else {}
    snap,                   \* history: slot and header when the call took the lock
    xl,                     \* the address translator's inputs and result
    al,                     \* the size alignment's input and result
    cb                      \* restart_notifier_cb: its call, position and effects

vars == << heap_info, toc, lock, spinlocks_initialized, smem_areas, peer, pc, op,
           id, size_in, ret, sz, use_spinlocks, prev, snap, xl, al, cb >>

shared == << heap_info, toc >>
locals == << op, id, size_in, ret, sz, use_spinlocks, prev, snap >>

(***************************************************************************)
(* The state after construction.                                           *)
(***************************************************************************)
Slots == 0 .. (SMEM_NUM_ITEMS - 1)
FixedIds == {i \in Slots : i <= SMEM_FIXED_ITEM_LAST}

EmptySlot == [allocated |-> 0, offset |-> 0, size |-> 0, reserved |-> 0]
\* the fixed item the boot loader placed in the auxiliary region (flag bit 0
\* set); the other fixed items are left unallocated
FixedSlot == [allocated |-> 1, offset |-> 16, size |-> 8, reserved |-> AuxPhys + 1]

NoSnap == [taken |-> FALSE, allocated |-> 0, offset |-> 0, size |-> 0,
           free_offset |-> 0, heap_remaining |-> 0, peer |-> "up", wmb |-> 0]

\* smem_areas once the platform's regions are registered
Areas == << Area(msm_shared_ram_phys, MSM_SHARED_RAM_SIZE, MSM_SHARED_RAM_BASE),
            Area(AuxPhys, AuxSize, AuxVirt) >>

XlOff == [base |-> 0, offset |-> 0, ret |-> 0, pc |-> "off"]
AlOff == [x |-> 0, r |-> 0, pc |-> "off"]
CbOff == [pc |-> "off", code |-> "none", processor |-> "none", dev |-> 0,
          lock0 |-> Free, other0 |-> Free, other |-> Free,
          dumps |-> 0, dumpret |-> 0, result |-> "none"]

InitLocals ==
    /\ pc = [p \in Procs |-> "idle"]
    /\ op = [p \in Procs |-> "none"]
    /\ id = [p \in Procs |-> 0]
    /\ size_in = [p \in Procs |-> 0]
    /\ ret = [p \in Procs |-> NULL]
    /\ sz = [p \in Procs |-> 0]
    /\ use_spinlocks = [p \in Procs |-> 0]
    /\ prev = [p \in Procs |-> {}]
    /\ snap = [p \in Procs |-> NoSnap]

\* the heap as the boot loader leaves it: not opened yet, or opened with the
\* first fixed item populated
InitHeap ==
    \/ /\ heap_info = [initialized |-> 0, free_offset |-> 0, heap_remaining |-> 0]
       /\ toc = [i \in Slots |-> EmptySlot]
    \/ /\ heap_info = [initialized |-> 1, free_offset |-> HeapStart,
                       heap_remaining |-> HeapSize]
       /\ toc = [i \in Slots |-> IF i = 0 THEN FixedSlot ELSE EmptySlot]

Init ==
    /\ InitHeap
    /\ lock = Free
    /\ spinlocks_initialized = 0
    /\ smem_areas = << >>
    /\ peer = "up"
    /\ InitLocals
    /\ xl = XlOff
    /\ al = AlOff
    /\ cb = CbOff

(***************************************************************************)
(* Bring-up of the application processor.                                  *)
(***************************************************************************)
\* the platform's regions are registered (smem_areas, num_smem_areas), the
\* remote spinlock is initialized and spinlocks_initialized is set
SmemBringUp ==
    /\ spinlocks_initialized = 0
    /\ smem_areas' = Areas
    /\ spinlocks_initialized' = 1
    /\ UNCHANGED << heap_info, toc, lock, peer, pc, locals, xl, al, cb >>

(***************************************************************************)
(* The cross-processor lock.                                               *)
(***************************************************************************)
Running(p) == p = Apps \/ peer = "up"

\* whether p's view of the lock has completed its bring-up
LockReady(p) == p # Apps \/ spinlocks_initialized = 1

\* remote_spin_lock_irqsave: blocks until the lock is free
remote_spin_lock(p) == lock = Free /\ lock' = p

\* remote_spin_unlock_irqrestore: clears the lock word
remote_spin_unlock == lock' = Free

\* remote_spin_release / remote_spin_release_all: clears the lock if pid owns it
remote_spin_release(pid) == lock' = IF lock = pid THEN Free ELSE lock

Snapshot(i) ==
    [taken |-> TRUE, allocated |-> toc[i].allocated, offset |-> toc[i].offset,
     size |-> toc[i].size, free_offset |-> heap_info.free_offset,
     heap_remaining |-> heap_info.heap_remaining, peer |-> peer, wmb |-> 0]

(***************************************************************************)
(* smem_alloc2(id, size_in), one action per shared-memory write.           *)
(***************************************************************************)
AlreadyAllocated_Never(i) == FALSE

\* line 229: if (toc[id].allocated)
AlreadyAllocated(i) == toc[i].allocated # 0

SizeMatches_Always(i, s) == TRUE

\* line 231: !(size_in != toc[id].size)
SizeMatches(i, s) == s = toc[i].size

HasRoom_Strict(s) == heap_info.heap_remaining > s

\* line 238: shared->heap_info.heap_remaining >= size_in
HasRoom(s) == heap_info.heap_remaining >= s

OutsideFixedRange_Any(i) == TRUE

\* line 236: else if (id > SMEM_FIXED_ITEM_LAST)
OutsideFixedRange(i) == i > SMEM_FIXED_ITEM_LAST

\* a context's locals once its call has returned
Returned(p) ==
    /\ pc' = [pc EXCEPT ![p] = "idle"]
    /\ op' = [op EXCEPT ![p] = "none"]
    /\ id' = [id EXCEPT ![p] = 0]
    /\ size_in' = [size_in EXCEPT ![p] = 0]
    /\ ret' = [ret EXCEPT ![p] = NULL]
    /\ prev' = [prev EXCEPT ![p] = {}]
    /\ snap' = [snap EXCEPT ![p] = NoSnap]

HeapNotInitialized_Ignored == FALSE

\* line 219: if (!shared->heap_info.initialized)
HeapNotInitialized == heap_info.initialized = 0

\* lines 212-227: entry with the two early returns; size_in keeps the caller's
\* value and the aligned size is ALIGN8(size_in[p]) from here on
Alloc2Entry(p, i, s, before) ==
    /\ op' = [op EXCEPT ![p] = "alloc2"]
    /\ id' = [id EXCEPT ![p] = i]
    /\ size_in' = [size_in EXCEPT ![p] = s]
    /\ ret' = [ret EXCEPT ![p] = NULL]
    /\ prev' = [prev EXCEPT ![p] = before]
    /\ IF HeapNotInitialized \/ i >= SMEM_NUM_ITEMS
       THEN /\ pc' = [pc EXCEPT ![p] = "a_out"]
            /\ snap' = [snap EXCEPT ![p] =
                          [NoSnap EXCEPT !.free_offset = heap_info.free_offset,
                                         !.heap_remaining = heap_info.heap_remaining]]
       ELSE /\ pc' = [pc EXCEPT ![p] = "a_lock"]
            /\ snap' = [snap EXCEPT ![p] = NoSnap]

\* a call of smem_alloc2(i, s)
Alloc2Call(p, i, s) ==
    /\ pc[p] = "idle"
    /\ Running(p)
    /\ Alloc2Entry(p, i, s, {})
    /\ UNCHANGED << heap_info, toc, lock, spinlocks_initialized, smem_areas, peer,
                    sz, use_spinlocks, xl, al, cb >>

\* lines 221, 225: return NULL
Alloc2Out(p) ==
    /\ pc[p] = "a_out"
    /\ Running(p)
    /\ Returned(p)
    /\ UNCHANGED << heap_info, toc, lock, spinlocks_initialized, smem_areas, peer,
                    sz, use_spinlocks, xl, al, cb >>

\* lines 228-238 and 247-251: remote_spin_lock_irqsave(), taken whether or not
\* the lock has been initialized (on a lock that is not, the call faults), then
\* the branch on allocated, the fixed range and the space left, with line 235
\* when the sizes match
Alloc2Lock(p) ==
    /\ pc[p] = "a_lock"
    /\ Running(p)
    /\ IF LockReady(p)
       THEN /\ remote_spin_lock(p)
            /\ snap' = [snap EXCEPT ![p] = Snapshot(id[p])]
            /\ LET i == id[p]
                   s == ALIGN8(size_in[p])
               IN  IF AlreadyAllocated(i)
                   THEN /\ ret' = [ret EXCEPT ![p] =
                                     IF SizeMatches(i, s) THEN HeapAddr(toc[i].offset)
                                     ELSE NULL]
                        /\ pc' = [pc EXCEPT ![p] = "a_wmb"]
                   ELSE /\ pc' = [pc EXCEPT ![p] =
                                    IF OutsideFixedRange(i) /\ HasRoom(s)
                                    THEN "a_offset" ELSE "a_wmb"]
                        /\ UNCHANGED ret
       ELSE /\ pc' = [pc EXCEPT ![p] = "fault"]
            /\ UNCHANGED << lock, snap, ret >>
    /\ UNCHANGED << heap_info, toc, spinlocks_initialized, smem_areas, peer,
                    op, id, size_in, sz, use_spinlocks, prev, xl, al, cb >>

Alloc2WriteOffset_FlagFirst(p) ==
    /\ pc[p] = "a_offset"
    /\ Running(p)
    /\ toc' = [toc EXCEPT ![id[p]].offset = heap_info.free_offset,
                          ![id[p]].allocated = 1]
    /\ pc' = [pc EXCEPT ![p] = "a_size"]
    /\ UNCHANGED << heap_info, lock, spinlocks_initialized, smem_areas, peer,
                    locals, xl, al, cb >>

\* line 239: toc[id].offset = shared->heap_info.free_offset
Alloc2WriteOffset(p) ==
    /\ pc[p] = "a_offset"
    /\ Running(p)
    /\ toc' = [toc EXCEPT ![id[p]].offset = heap_info.free_offset]
    /\ pc' = [pc EXCEPT ![p] = "a_size"]
    /\ UNCHANGED << heap_info, lock, spinlocks_initialized, smem_areas, peer,
                    locals, xl, al, cb >>

\* line 240: toc[id].size = size_in
Alloc2WriteSize(p) ==
    /\ pc[p] = "a_size"
    /\ Running(p)
    /\ toc' = [toc EXCEPT ![id[p]].size = ALIGN8(size_in[p])]
    /\ pc' = [pc EXCEPT ![p] = "a_flag"]
    /\ UNCHANGED << heap_info, lock, spinlocks_initialized, smem_areas, peer,
                    locals, xl, al, cb >>

\* lines 241-242: wmb(); toc[id].allocated = 1
Alloc2SetAllocated(p) ==
    /\ pc[p] = "a_flag"
    /\ Running(p)
    /\ snap' = [snap EXCEPT ![p].wmb = @ + 1]
    /\ toc' = [toc EXCEPT ![id[p]].allocated = 1]
    /\ pc' = [pc EXCEPT ![p] = "a_free"]
    /\ UNCHANGED << heap_info, lock, spinlocks_initialized, smem_areas, peer,
                    op, id, size_in, ret, sz, use_spinlocks, prev, xl, al, cb >>

\* line 244: shared->heap_info.free_offset += size_in
Alloc2AdvanceFree(p) ==
    /\ pc[p] = "a_free"
    /\ Running(p)
    /\ heap_info' = [heap_info EXCEPT
                       !.free_offset = (@ + ALIGN8(size_in[p])) % UWRAP]
    /\ pc' = [pc EXCEPT ![p] = "a_remaining"]
    /\ UNCHANGED << toc, lock, spinlocks_initialized, smem_areas, peer,
                    locals, xl, al, cb >>

\* lines 245-246: heap_remaining -= size_in; ret = MSM_SHARED_RAM_BASE + offset
Alloc2TakeRemaining(p) ==
    /\ pc[p] = "a_remaining"
    /\ Running(p)
    /\ heap_info' = [heap_info EXCEPT
                       !.heap_remaining = (@ - ALIGN8(size_in[p])) % UWRAP]
    /\ ret' = [ret EXCEPT ![p] = HeapAddr(toc[id[p]].offset)]
    /\ pc' = [pc EXCEPT ![p] = "a_wmb"]
    /\ UNCHANGED << toc, lock, spinlocks_initialized, smem_areas, peer,
                    op, id, size_in, sz, use_spinlocks, prev, snap, xl, al, cb >>

Alloc2Barrier_None(p) ==
    /\ pc[p] = "a_wmb"
    /\ Running(p)
    /\ pc' = [pc EXCEPT ![p] = "a_unlock"]
    /\ UNCHANGED << heap_info, toc, lock, spinlocks_initialized, smem_areas, peer,
                    locals, xl, al, cb >>

\* line 252: wmb(), on every path that took the lock
Alloc2Barrier(p) ==
    /\ pc[p] = "a_wmb"
    /\ Running(p)
    /\ snap' = [snap EXCEPT ![p].wmb = @ + 1]
    /\ pc' = [pc EXCEPT ![p] = "a_unlock"]
    /\ UNCHANGED << heap_info, toc, lock, spinlocks_initialized, smem_areas, peer,
                    op, id, size_in, ret, sz, use_spinlocks, prev, xl, al, cb >>

\* lines 253-254: remote_spin_unlock_irqrestore(); return ret
Alloc2Unlock(p) ==
    /\ pc[p] = "a_unlock"
    /\ Running(p)
    /\ remote_spin_unlock
    /\ Returned(p)
    /\ UNCHANGED << heap_info, toc, spinlocks_initialized, smem_areas, peer,
                    sz, use_spinlocks, xl, al, cb >>

\* the call returns (lines 253-254, or 221 and 225) and its caller calls
\* smem_alloc2 again on the same id, with size s
Alloc2Again(p, s) ==
    /\ pc[p] \in {"a_unlock", "a_out"}
    /\ Running(p)
    /\ IF pc[p] = "a_unlock" THEN remote_spin_unlock ELSE UNCHANGED lock
    /\ Alloc2Entry(p, id[p], s, {[size |-> size_in[p], ret |-> ret[p]]})
    /\ UNCHANGED << heap_info, toc, spinlocks_initialized, smem_areas, peer,
                    sz, use_spinlocks, xl, al, cb >>

\* the calls of smem_alloc2 a caller makes with ids of I and sizes of S
Alloc2Calls(p, I, S) ==
    \/ \E i \in I, s \in S : Alloc2Call(p, i, s)
    \/ \E s \in S : Alloc2Again(p, s)

\* the steps of a call of smem_alloc2 after its entry
Alloc2Steps(p) ==
    \/ Alloc2Out(p)
    \/ Alloc2Lock(p)
    \/ Alloc2WriteOffset(p)
    \/ Alloc2WriteSize(p)
    \/ Alloc2SetAllocated(p)
    \/ Alloc2AdvanceFree(p)
    \/ Alloc2TakeRemaining(p)
    \/ Alloc2Barrier(p)
    \/ Alloc2Unlock(p)

smem_alloc2(p) == Alloc2Calls(p, IdsOf(p), SizesOf(p)) \/ Alloc2Steps(p)

(***************************************************************************)
(* smem_find(id, size_in) over smem_get_entry(id, &size).                  *)
(***************************************************************************)
EntryAllocated_Always(i) == TRUE

\* line 272: if (toc[id].allocated)
EntryAllocated(i) == toc[i].allocated # 0

\* lines 195-205 of smem_find, on what smem_get_entry returned
FindResult(ptr, size, s) ==
    IF ptr = NULL THEN NULL
    ELSE IF ALIGN8(s) # size THEN NULL
    ELSE ptr

\* lines 189-194 and 258-267: entry, use_spinlocks = spinlocks_initialized,
\* the range check on id; the history keeps whether the slot was allocated
\* when the call was made
FindEntry(p, i, s, before) ==
    /\ op' = [op EXCEPT ![p] = "find"]
    /\ id' = [id EXCEPT ![p] = i]
    /\ size_in' = [size_in EXCEPT ![p] = s]
    /\ ret' = [ret EXCEPT ![p] = NULL]
    /\ sz' = [sz EXCEPT ![p] = 0]
    /\ use_spinlocks' = [use_spinlocks EXCEPT ![p] = spinlocks_initialized]
    /\ prev' = [prev EXCEPT ![p] = before]
    /\ snap' = [snap EXCEPT ![p] =
                  [NoSnap EXCEPT !.allocated = IF i >= SMEM_NUM_ITEMS THEN 0
                                               ELSE toc[i].allocated]]
    /\ pc' = [pc EXCEPT ![p] = IF i >= SMEM_NUM_ITEMS THEN "f_check" ELSE "g_flag"]

\* a call of smem_find(i, s)
FindCall(p, i, s) ==
    /\ pc[p] = "idle"
    /\ Running(p)
    /\ FindEntry(p, i, s, {})
    /\ UNCHANGED << heap_info, toc, lock, spinlocks_initialized, smem_areas, peer,
                    xl, al, cb >>

\* smem_alloc2 returns (lines 253-254) and its caller calls smem_find with
\* the id and the size it had passed to smem_alloc2
FindAfterAlloc2(p) ==
    /\ pc[p] = "a_unlock"
    /\ Running(p)
    /\ remote_spin_unlock
    /\ FindEntry(p, id[p], size_in[p], {[size |-> size_in[p], ret |-> ret[p]]})
    /\ UNCHANGED << heap_info, toc, spinlocks_initialized, smem_areas, peer,
                    xl, al, cb >>

\* lines 269-272 and 283: if (use_spinlocks) remote_spin_lock_irqsave(); read
\* the allocated flag; *size = 0 when it is clear
GetEntryFlag(p) ==
    /\ pc[p] = "g_flag"
    /\ Running(p)
    /\ IF use_spinlocks[p] # 0 THEN remote_spin_lock(p) ELSE UNCHANGED lock
    /\ pc' = [pc EXCEPT ![p] = IF EntryAllocated(id[p]) THEN "g_size" ELSE "g_unlock"]
    /\ UNCHANGED << heap_info, toc, spinlocks_initialized, smem_areas, peer,
                    locals, xl, al, cb >>

\* lines 275-276: *size = toc[id].size; barrier()
GetEntrySize(p) ==
    /\ pc[p] = "g_size"
    /\ Running(p)
    /\ sz' = [sz EXCEPT ![p] = toc[id[p]].size]
    /\ pc' = [pc EXCEPT ![p] = "g_translate"]
    /\ UNCHANGED << heap_info, toc, lock, spinlocks_initialized, smem_areas, peer,
                    op, id, size_in, ret, use_spinlocks, prev, snap, xl, al, cb >>

\* lines 278-281: the base override, then smem_phys_to_virt(phys_base, offset)
GetEntryTranslate(p) ==
    /\ pc[p] = "g_translate"
    /\ Running(p)
    /\ LET override == BaseAddr(toc[id[p]].reserved)
           phys_base == IF override = 0 THEN msm_shared_ram_phys ELSE override
       IN  ret' = [ret EXCEPT ![p] =
                     smem_phys_to_virt(smem_areas, phys_base, toc[id[p]].offset)]
    /\ pc' = [pc EXCEPT ![p] = "g_unlock"]
    /\ UNCHANGED << heap_info, toc, lock, spinlocks_initialized, smem_areas, peer,
                    op, id, size_in, sz, use_spinlocks, prev, snap, xl, al, cb >>

GetEntryUnlock_RereadsFlag(p) ==
    /\ pc[p] = "g_unlock"
    /\ Running(p)
    /\ IF spinlocks_initialized # 0 THEN remote_spin_unlock ELSE UNCHANGED lock
    /\ pc' = [pc EXCEPT ![p] = "f_check"]
    /\ UNCHANGED << heap_info, toc, spinlocks_initialized, smem_areas, peer,
                    locals, xl, al, cb >>

\* lines 285-288: if (use_spinlocks) remote_spin_unlock_irqrestore(); return ret
GetEntryUnlock(p) ==
    /\ pc[p] = "g_unlock"
    /\ Running(p)
    /\ IF use_spinlocks[p] # 0 THEN remote_spin_unlock ELSE UNCHANGED lock
    /\ pc' = [pc EXCEPT ![p] = "f_check"]
    /\ UNCHANGED << heap_info, toc, spinlocks_initialized, smem_areas, peer,
                    locals, xl, al, cb >>

\* lines 195-205 of smem_find on the pointer and size smem_get_entry returned;
\* the result stays in ret until the context's next call
FindCheck(p) ==
    /\ pc[p] = "f_check"
    /\ Running(p)
    /\ ret' = [ret EXCEPT ![p] = FindResult(ret[p], sz[p], size_in[p])]
    /\ sz' = [sz EXCEPT ![p] = 0]
    /\ use_spinlocks' = [use_spinlocks EXCEPT ![p] = 0]
    /\ pc' = [pc EXCEPT ![p] = "idle"]
    /\ UNCHANGED << heap_info, toc, lock, spinlocks_initialized, smem_areas, peer,
                    op, id, size_in, prev, snap, xl, al, cb >>

\* the calls of smem_find a caller makes with ids of I and sizes of S
FindCalls(p, I, S) == \E i \in I, s \in S : FindCall(p, i, s)

\* the steps of a call of smem_find after its entry
FindSteps(p) ==
    \/ GetEntryFlag(p)
    \/ GetEntrySize(p)
    \/ GetEntryTranslate(p)
    \/ GetEntryUnlock(p)
    \/ FindCheck(p)

smem_find(p) ==
    \/ FindCalls(p, IdsOf(p), SizesOf(p))
    \/ FindAfterAlloc2(p)
    \/ FindSteps(p)

(***************************************************************************)
(* The peer's life cycle and restart_notifier_cb.                          *)
(***************************************************************************)
Codes == {"SUBSYS_BEFORE_SHUTDOWN", "SUBSYS_AFTER_SHUTDOWN"}

\* the peer terminates wherever it is, keeping whatever it holds
PeerCrash ==
    /\ peer = "up"
    /\ peer' = "down"
    /\ UNCHANGED << heap_info, toc, lock, spinlocks_initialized, smem_areas, pc,
                    locals, xl, al, cb >>

restart_notifier_cb_NoRelease(code) ==
    /\ peer' = IF code = "SUBSYS_AFTER_SHUTDOWN" THEN "notified" ELSE peer
    /\ UNCHANGED << heap_info, toc, lock, spinlocks_initialized, smem_areas, pc,
                    locals, xl, al, cb >>

\* lines 304-339, called for the peer: on SUBSYS_AFTER_SHUTDOWN,
\* remote_spin_release() then remote_spin_release_all() for its processor
restart_notifier_cb(code) ==
    IF code = "SUBSYS_AFTER_SHUTDOWN"
    THEN /\ remote_spin_release(Modem)
         /\ peer' = "notified"
         /\ UNCHANGED << heap_info, toc, spinlocks_initialized, smem_areas, pc,
                         locals, xl, al, cb >>
    ELSE UNCHANGED vars

\* the subsystem notifier delivers an event; the terminated event comes once
\* the peer is down, and may come again
Notify ==
    \E code \in Codes :
        /\ code = "SUBSYS_AFTER_SHUTDOWN" => peer # "up"
        /\ restart_notifier_cb(code)

\* the peer is powered up again after its terminated event was handled
PeerRestart ==
    /\ peer = "notified"
    /\ peer' = "up"
    /\ pc' = [pc EXCEPT ![Modem] = "idle"]
    /\ op' = [op EXCEPT ![Modem] = "none"]
    /\ id' = [id EXCEPT ![Modem] = 0]
    /\ size_in' = [size_in EXCEPT ![Modem] = 0]
    /\ ret' = [ret EXCEPT ![Modem] = NULL]
    /\ prev' = [prev EXCEPT ![Modem] = {}]
    /\ snap' = [snap EXCEPT ![Modem] = NoSnap]
    /\ UNCHANGED << heap_info, toc, lock, spinlocks_initialized, smem_areas,
                    sz, use_spinlocks, xl, al, cb >>

(***************************************************************************)
(* The allocator's specification.                                          *)
(***************************************************************************)
Next ==
    \/ SmemBringUp
    \/ \E p \in Procs : smem_alloc2(p)
    \/ smem_find(Apps)
    \/ PeerCrash
    \/ Notify
    \/ PeerRestart

Spec == Init /\ [][Next]_vars

TypeOK ==
    /\ lock \in Procs \cup {Free}
    /\ peer \in {"up", "down", "notified"}
    /\ \A i \in Slots : toc[i].allocated \in {0, 1}

(***************************************************************************)
(* The translator alone: smem_phys_to_virt applied to one base and offset  *)
(* under one registry.                                                     *)
(***************************************************************************)
\* a registry whose one region is mapped at the top of the address space
HighAreas == << Area(12288, 256, UWRAP - 128) >>

XlRegistries == { << >>, Areas, HighAreas }
XlBases == {4095, 4096, 4176, 4351, 8192, 8448, 12288, UMAX - 15}
XlOffsets == {0, 16, 175, 176, 255, 512, UMAX - 64, UMAX}

InitXlate ==
    /\ heap_info = [initialized |-> 1, free_offset |-> HeapStart,
                    heap_remaining |-> HeapSize]
    /\ toc = [i \in Slots |-> IF i = 0 THEN FixedSlot ELSE EmptySlot]
    /\ lock = Free
    /\ spinlocks_initialized = 0
    /\ smem_areas \in XlRegistries
    /\ peer = "up"
    /\ InitLocals
    /\ \E b \in XlBases, o \in XlOffsets :
         xl = [base |-> b, offset |-> o, ret |-> NULL, pc |-> "call"]
    /\ al = AlOff
    /\ cb = CbOff

\* lines 90-145: one call of smem_phys_to_virt(base, offset)
Translate ==
    /\ xl.pc = "call"
    /\ xl' = [xl EXCEPT !.ret = smem_phys_to_virt(smem_areas, xl.base, xl.offset),
                        !.pc = "done"]
    /\ UNCHANGED << heap_info, toc, lock, spinlocks_initialized, smem_areas, peer,
                    pc, locals, al, cb >>

NextXlate == Translate

SpecXlate == InitXlate /\ [][NextXlate]_vars

(***************************************************************************)
(* The size alignment alone: ALIGN(size_in, 8) of smem_find and            *)
(* smem_alloc2 applied to one size.                                        *)
(***************************************************************************)
\* the sizes next to zero and next to the largest unsigned
AlignInputs == (0 .. 31) \cup ((UMAX - 31) .. UMAX)

\* the state in which nothing but the alignment runs
QuietInit ==
    /\ heap_info = [initialized |-> 1, free_offset |-> HeapStart,
                    heap_remaining |-> HeapSize]
    /\ toc = [i \in Slots |-> IF i = 0 THEN FixedSlot ELSE EmptySlot]
    /\ spinlocks_initialized = 1
    /\ smem_areas = Areas
    /\ peer = "up"
    /\ InitLocals

InitAlign ==
    /\ QuietInit
    /\ lock = Free
    /\ xl = XlOff
    /\ cb = CbOff
    /\ \E x \in AlignInputs : al = [x |-> x, r |-> 0, pc |-> "call"]

\* lines 198 and 227: size_in = ALIGN(size_in, 8)
Align ==
    /\ al.pc = "call"
    /\ al' = [al EXCEPT !.r = ALIGN8(al.x), !.pc = "done"]
    /\ UNCHANGED << heap_info, toc, lock, spinlocks_initialized, smem_areas, peer,
                    pc, locals, xl, cb >>

NextAlign == Align

SpecAlign == InitAlign /\ [][NextAlign]_vars

\* C12 as stated: for every unsigned x the aligned size is a multiple of 8,
\* is at least x and is less than x + 8.
C12_AlignAsStated ==
    al.pc = "done"
        => al.r % 8 = 0 /\ al.r >= al.x /\ al.r < al.x + 8

\* what the alignment does guarantee: up to the largest multiple of 8 the
\* aligned size is a multiple of 8, at least x and less than x + 8, with 0, 1,
\* 8 and 9 aligned to 0, 8, 8 and 16; for the larger x the sum x + 7 wraps and
\* the aligned size is 0.
AlignBelowWrap ==
    al.pc = "done"
        => /\ al.x <= UMAX - 7
               => al.r % 8 = 0 /\ al.r >= al.x /\ al.r < al.x + 8
           /\ al.x > UMAX - 7 => al.r = 0
           /\ al.x = 0 => al.r = 0
           /\ al.x \in {1, 8} => al.r = 8
           /\ al.x = 9 => al.r = 16

(***************************************************************************)
(* restart_notifier_cb alone, one step per call it makes, for one event    *)
(* delivered to one of the registered notifier blocks.                     *)
(***************************************************************************)
\* a second peer of restart_notifiers
Q6 == "q6"
NotifierProcessors == {Modem, Q6}
LockOwners == {Free, Apps, Modem, Q6}

\* lines 341-362 have run: smem_ramdump_dev is a device (1) or NULL (0), the
\* notifier blocks are registered; some processor may hold remote_spinlock and
\* some processor another remote spinlock
InitNotify ==
    /\ QuietInit
    /\ xl = XlOff
    /\ al = AlOff
    /\ lock \in LockOwners
    /\ \E code \in Codes, processor \in NotifierProcessors, dev \in {0, 1},
          o \in LockOwners :
         cb = [pc |-> "entry", code |-> code, processor |-> processor,
               dev |-> dev, lock0 |-> lock, other0 |-> o, other |-> o,
               dumps |-> 0, dumpret |-> 0, result |-> "none"]

\* lines 308-317: the test of code; remote_spin_release(&remote_spinlock,
\* notifier->processor)
CbRelease ==
    /\ cb.pc = "entry"
    /\ IF cb.code = "SUBSYS_AFTER_SHUTDOWN"
       THEN /\ remote_spin_release(cb.processor)
            /\ cb' = [cb EXCEPT !.pc = "release_all"]
       ELSE /\ UNCHANGED lock
            /\ cb' = [cb EXCEPT !.pc = "return"]
    /\ UNCHANGED << heap_info, toc, spinlocks_initialized, smem_areas, peer,
                    pc, locals, xl, al >>

\* line 318: remote_spin_release_all(notifier->processor), then the test of
\* smem_ramdump_dev of line 320
CbReleaseAll ==
    /\ cb.pc = "release_all"
    /\ remote_spin_release(cb.processor)
    /\ cb' = [cb EXCEPT !.other = IF @ = cb.processor THEN Free ELSE @,
                        !.pc = IF cb.dev # 0 THEN "dump" ELSE "return"]
    /\ UNCHANGED << heap_info, toc, spinlocks_initialized, smem_areas, peer,
                    pc, locals, xl, al >>

\* lines 330-334: ret = do_elf_ramdump(...), which fails (ret < 0) or not; a
\* failure is logged
CbDump ==
    /\ cb.pc = "dump"
    /\ \E r \in {-1, 0} :
         cb' = [cb EXCEPT !.dumps = @ + 1, !.dumpret = r, !.pc = "return"]
    /\ UNCHANGED << heap_info, toc, lock, spinlocks_initialized, smem_areas, peer,
                    pc, locals, xl, al >>

CbReturn_Escalates ==
    /\ cb.pc = "return"
    /\ cb' = [cb EXCEPT !.result = IF cb.dumpret < 0 THEN "NOTIFY_BAD"
                                   ELSE "NOTIFY_DONE",
                        !.pc = "done"]
    /\ UNCHANGED << heap_info, toc, lock, spinlocks_initialized, smem_areas, peer,
                    pc, locals, xl, al >>

\* line 338: return NOTIFY_DONE
CbReturn ==
    /\ cb.pc = "return"
    /\ cb' = [cb EXCEPT !.result = "NOTIFY_DONE", !.pc = "done"]
    /\ UNCHANGED << heap_info, toc, lock, spinlocks_initialized, smem_areas, peer,
                    pc, locals, xl, al >>

NextNotify ==
    \/ CbRelease
    \/ CbReleaseAll
    \/ CbDump
    \/ CbReturn

SpecNotify == InitNotify /\ [][NextNotify]_vars

\* the owner of a lock once the locks of the notifier's processor are released
ReleasedFrom(o) == IF o = cb.processor THEN Free ELSE o

\* C16: on SUBSYS_AFTER_SHUTDOWN restart_notifier_cb releases remote_spinlock
\* for the notifier's processor, then every other lock of that processor, and
\* only then attempts a dump; the locks it leaves and the value it returns
\* are the same with no dump device, with a dump that succeeds and with one
\* that fails; for any other code it changes nothing.
C16_ReleaseThenSweepThenDump ==
    /\ cb.pc = "release_all"
          => lock = ReleasedFrom(cb.lock0) /\ cb.other = cb.other0 /\ cb.dumps = 0
    /\ (cb.pc = "dump" \/ cb.dumps > 0)
          => lock = ReleasedFrom(cb.lock0) /\ cb.other = ReleasedFrom(cb.other0)
    /\ cb.pc = "dump" => cb.dumps = 0
    /\ cb.pc = "done"
          => /\ cb.result = "NOTIFY_DONE"
             /\ cb.code = "SUBSYS_AFTER_SHUTDOWN"
                   => /\ lock = ReleasedFrom(cb.lock0)
                      /\ cb.other = ReleasedFrom(cb.other0)
                      /\ cb.dumps = cb.dev
    /\ (cb.pc # "off" /\ cb.code # "SUBSYS_AFTER_SHUTDOWN")
          => /\ lock = cb.lock0 /\ cb.other = cb.other0 /\ cb.dumps = 0
             /\ heap_info.free_offset = HeapStart
             /\ heap_info.heap_remaining = HeapSize
             /\ \A i \in Slots : toc[i] = IF i = 0 THEN FixedSlot ELSE EmptySlot

\* C16 witness: the terminated peer held both locks, the dump failed, and the
\* callback returned NOTIFY_DONE with both locks free.
C16_Witness ==
    /\ cb.pc = "done" /\ cb.code = "SUBSYS_AFTER_SHUTDOWN"
    /\ cb.lock0 = cb.processor /\ cb.other0 = cb.processor
    /\ cb.dev = 1 /\ cb.dumpret < 0
    /\ lock = Free /\ cb.other = Free
    /\ cb.result = "NOTIFY_DONE"

(***************************************************************************)
(* The allocator under fair scheduling: a running processor keeps          *)
(* executing, a spinning waiter takes the lock if it is free again and     *)
(* again, and the subsystem notifier delivers the terminated event.        *)
(***************************************************************************)
\* the callers contend for dynamic items of one size
LiveIds(p) ==
    IF p = Apps
    THEN {i \in Slots : i > SMEM_FIXED_ITEM_LAST /\ i <= SMEM_FIXED_ITEM_LAST + 2}
    ELSE PeerIds
LiveSizes == {8}

NextLive ==
    \/ SmemBringUp
    \/ \E p \in Procs : Alloc2Calls(p, LiveIds(p), LiveSizes) \/ Alloc2Steps(p)
    \/ FindCalls(Apps, LiveIds(Apps), LiveSizes) \/ FindSteps(Apps)
    \/ PeerCrash
    \/ Notify
    \/ PeerRestart

\* the steps of context p that take the lock
Acquire(p) ==
    \/ Alloc2Lock(p)
    \/ use_spinlocks[p] # 0 /\ GetEntryFlag(p)

\* the steps of context p inside a call that do not take the lock
Advance(p) ==
    \/ Alloc2Out(p)
    \/ Alloc2WriteOffset(p)
    \/ Alloc2WriteSize(p)
    \/ Alloc2SetAllocated(p)
    \/ Alloc2AdvanceFree(p)
    \/ Alloc2TakeRemaining(p)
    \/ Alloc2Barrier(p)
    \/ Alloc2Unlock(p)
    \/ \E s \in LiveSizes : Alloc2Again(p, s)
    \/ use_spinlocks[p] = 0 /\ GetEntryFlag(p)
    \/ GetEntrySize(p)
    \/ GetEntryTranslate(p)
    \/ GetEntryUnlock(p)
    \/ FindCheck(p)

\* delivery of the peer's terminated event
NotifyTerminated == peer # "up" /\ restart_notifier_cb("SUBSYS_AFTER_SHUTDOWN")

Fairness ==
    /\ \A p \in Procs : WF_vars(Advance(p)) /\ SF_vars(Acquire(p))
    /\ WF_vars(NotifyTerminated)

FairSpec == Init /\ [][NextLive]_vars /\ Fairness

\* context p waits for the lock, which it can take once it is free
Waiting(p) ==
    \/ pc[p] = "a_lock" /\ LockReady(p)
    \/ pc[p] = "g_flag" /\ use_spinlocks[p] # 0

\* the peer stopped inside the critical section of smem_alloc2
PeerDiedInside ==
    pc[Modem] \in {"a_offset", "a_size", "a_flag", "a_free", "a_remaining", "a_wmb",
                   "a_unlock"}

AboutToReturn(p) == Running(p) /\ pc[p] = "a_unlock" /\ snap[p].taken

\* the heap header is as it was when the call of p took the lock
HeaderUntouched(p) ==
    /\ heap_info.free_offset = snap[p].free_offset
    /\ heap_info.heap_remaining = snap[p].heap_remaining

\* the slot of the call of p is as it was when the call took the lock
SlotUntouched(p) ==
    /\ toc[id[p]].allocated = snap[p].allocated
    /\ toc[id[p]].offset = snap[p].offset
    /\ toc[id[p]].size = snap[p].size

\* C1: a context that calls smem_alloc2(id, size) and then calls it again with
\* the same arguments gets the same result the second time, and the second
\* call leaves free_offset and heap_remaining as it found them, whatever the
\* other processor does to other items in between.
C1_SecondCallSameAddress ==
    \A p \in Procs :
        \A r \in prev[p] :
            (Running(p) /\ pc[p] \in {"a_unlock", "a_out"} /\ r.size = size_in[p])
                => /\ ret[p] = r.ret
                   /\ pc[p] = "a_unlock" => HeaderUntouched(p)

\* C1 witness: the second of two equal calls of the application context is
\* about to return the address of the first, after the peer allocated
\* another item in between.
C1_Witness ==
    /\ AboutToReturn(Apps)
    /\ prev[Apps] = {[size |-> size_in[Apps], ret |-> ret[Apps]]}
    /\ ret[Apps] # NULL
    /\ \E j \in Slots :
         /\ j # id[Apps]
         /\ toc[j].allocated = 1
         /\ toc[j].offset > toc[id[Apps]].offset

\* C2 as stated: once smem_alloc2(id, size1) returned the dynamic item id, a
\* call smem_alloc2(id, size2) with size1 # align8(size2) returns no address
\* and changes neither the slot nor the heap header.
C2_MismatchAsStated ==
    \A p \in Procs :
        \A r \in prev[p] :
            (AboutToReturn(p) /\ id[p] > SMEM_FIXED_ITEM_LAST
               /\ r.ret # NULL /\ r.size # ALIGN8(size_in[p]))
                => ret[p] = NULL /\ SlotUntouched(p) /\ HeaderUntouched(p)

\* C2 amended: once smem_alloc2(id, size1) returned the dynamic item id, a
\* call smem_alloc2(id, size2) with align8(size1) # align8(size2) returns no
\* address and changes neither the slot nor the heap header.
C2_MismatchOfAlignedSizes ==
    \A p \in Procs :
        \A r \in prev[p] :
            (AboutToReturn(p) /\ id[p] > SMEM_FIXED_ITEM_LAST
               /\ r.ret # NULL /\ ALIGN8(r.size) # ALIGN8(size_in[p]))
                => ret[p] = NULL /\ SlotUntouched(p) /\ HeaderUntouched(p)

\* C2 witness: the item was returned for size 8 and the next call on it, with
\* a size that aligns to another value, is about to return no address.
C2_Witness ==
    /\ AboutToReturn(Apps)
    /\ \E r \in prev[Apps] :
         r.ret # NULL /\ r.size = 8 /\ ALIGN8(size_in[Apps]) # 8
    /\ ret[Apps] = NULL
    /\ id[Apps] > SMEM_FIXED_ITEM_LAST
    /\ toc[id[Apps]].allocated = 1

\* C3 as stated: a call on an unallocated, non-fixed id whose requested size
\* exceeds heap_remaining returns no address, leaves the slot unallocated and
\* leaves free_offset and heap_remaining unchanged.
C3_OutOfMemoryAsStated ==
    \A p \in Procs :
        (AboutToReturn(p) /\ snap[p].allocated = 0
           /\ id[p] > SMEM_FIXED_ITEM_LAST
           /\ size_in[p] > snap[p].heap_remaining)
            => ret[p] = NULL /\ toc[id[p]].allocated = 0 /\ HeaderUntouched(p)

\* C4: smem_find on a valid id whose slot is not allocated has returned no
\* address, whatever size it was given and whatever else is allocated.
C4_NeverAllocatedNotFound ==
    \A p \in Procs :
        (pc[p] = "idle" /\ op[p] = "find" /\ id[p] < SMEM_NUM_ITEMS
           /\ toc[id[p]].allocated = 0)
            => ret[p] = NULL

\* C4 witness: smem_find returned for an id that was never allocated while
\* another item is allocated.
C4_Witness ==
    /\ pc[Apps] = "idle" /\ op[Apps] = "find"
    /\ id[Apps] < SMEM_NUM_ITEMS
    /\ id[Apps] > SMEM_FIXED_ITEM_LAST
    /\ toc[id[Apps]].allocated = 0
    /\ ret[Apps] = NULL
    /\ \E j \in Slots : j > SMEM_FIXED_ITEM_LAST /\ toc[j].allocated = 1

\* C7: a call of smem_alloc2 that takes the lock after the peer's terminated
\* event was handled, on an unallocated non-fixed id with an aligned size of
\* at most heap_remaining, allocates the item and returns its address.
C7_AllocatesAfterRecovery ==
    (AboutToReturn(Apps) /\ snap[Apps].peer = "notified"
       /\ snap[Apps].allocated = 0
       /\ id[Apps] > SMEM_FIXED_ITEM_LAST
       /\ ALIGN8(size_in[Apps]) <= snap[Apps].heap_remaining)
        => ret[Apps] # NULL /\ toc[id[Apps]].allocated = 1

\* C7 witness: the peer died inside its critical section on one item, its
\* terminated event was handled, and a later call on another item is about to
\* return an address.
C7_Witness ==
    /\ AboutToReturn(Apps) /\ snap[Apps].peer = "notified"
    /\ peer = "notified" /\ PeerDiedInside
    /\ id[Apps] # id[Modem]
    /\ snap[Apps].allocated = 0
    /\ size_in[Apps] = 8
    /\ ret[Apps] # NULL

\* C9 as stated: while the heap is open, free_offset + heap_remaining equals
\* its value when the heap was opened, in every state.
C9_HeaderSumAsStated ==
    heap_info.initialized = 1
        => heap_info.free_offset + heap_info.heap_remaining = HeapStart + HeapSize

\* C10: no step clears the allocated flag of a slot or changes the offset or
\* the size of a slot whose flag is set.
C10_AllocatedIsTerminal ==
    [][\A i \in Slots :
          toc[i].allocated = 1
              => /\ toc'[i].allocated = 1
                 /\ toc'[i].offset = toc[i].offset
                 /\ toc'[i].size = toc[i].size]_vars

\* C10 witness: on an allocated dynamic item, a call with another size is
\* about to fail after the peer's terminated event was handled.
C10_Witness ==
    /\ AboutToReturn(Apps)
    /\ id[Apps] > SMEM_FIXED_ITEM_LAST
    /\ snap[Apps].allocated = 1
    /\ ret[Apps] = NULL
    /\ peer = "notified"

\* C11: a call of smem_alloc2 on an unallocated id of the fixed range
\* (id <= SMEM_FIXED_ITEM_LAST) returns no address and leaves the slot's
\* allocated flag, offset and size and the header's free_offset and
\* heap_remaining as it found them, whatever the size asked for and the space
\* left.
C11_FixedRangeRefused ==
    \A p \in Procs :
        (AboutToReturn(p) /\ snap[p].allocated = 0
           /\ id[p] <= SMEM_FIXED_ITEM_LAST)
            => ret[p] = NULL /\ SlotUntouched(p) /\ HeaderUntouched(p)

\* C11 witness: a call on the unallocated fixed id, with a size the heap has
\* room for, is about to return no address.
C11_Witness ==
    /\ AboutToReturn(Apps)
    /\ id[Apps] <= SMEM_FIXED_ITEM_LAST
    /\ snap[Apps].allocated = 0
    /\ ALIGN8(size_in[Apps]) = 8
    /\ heap_info.heap_remaining >= 8
    /\ ret[Apps] = NULL

\* the call of smem_find of context p found the allocated flag of its slot set
SawAllocated(p) ==
    /\ op[p] = "find"
    /\ \/ pc[p] \in {"g_size", "g_translate"}
       \/ pc[p] = "g_unlock" /\ (ret[p] # NULL \/ sz[p] # 0)

\* what smem_get_entry returns for slot i as it is, under either registry
EntryAddresses(i) ==
    LET override == BaseAddr(toc[i].reserved)
        phys_base == IF override = 0 THEN msm_shared_ram_phys ELSE override
    IN  {smem_phys_to_virt(A, phys_base, toc[i].offset) : A \in {<< >>, Areas}}

\* C13: a reader that found the allocated flag of a slot set, with or without
\* the lock and whatever a writer on the same id is doing, reads the offset
\* and the size the slot was allocated with: the flag is set, no running
\* writer on that id has its write of the offset, the size or the flag still
\* ahead of it, and the size and the address the reader got are those of the
\* slot.
C13_FlagPublishesSlot ==
    \A p \in Procs :
        SawAllocated(p)
            => /\ toc[id[p]].allocated = 1
               /\ \A q \in Procs \ {p} :
                     (Running(q) /\ op[q] = "alloc2" /\ id[q] = id[p])
                         => pc[q] \notin {"a_offset", "a_size", "a_flag"}
               /\ pc[p] \in {"g_translate", "g_unlock"}
                     => sz[p] = toc[id[p]].size
               /\ pc[p] = "g_unlock" => ret[p] \in EntryAddresses(id[p])

\* C13 witness: during early bring-up a reader without the lock found the
\* flag set and read the size while the peer, which is allocating that very
\* item, is still inside its critical section.
C13_Witness ==
    /\ pc[Apps] = "g_translate" /\ op[Apps] = "find"
    /\ use_spinlocks[Apps] = 0
    /\ id[Apps] = id[Modem]
    /\ sz[Apps] = 8
    /\ peer = "up" /\ lock = Modem
    /\ pc[Modem] \in {"a_free", "a_remaining"}

\* the positions of smem_alloc2 between taking the lock and releasing it
InsideAlloc2 ==
    {"a_offset", "a_size", "a_flag", "a_free", "a_remaining", "a_wmb", "a_unlock"}

\* where the call of p stands in the order of lines 239-253: what it has
\* written of its slot and of the header, and how many write barriers it has
\* executed since it took the lock
Alloc2InOrder(p) ==
    LET i == id[p]
        s == ALIGN8(size_in[p])
        slotWritten == toc[i].offset = snap[p].free_offset /\ toc[i].size = s
        headerWritten ==
            /\ heap_info.free_offset = (snap[p].free_offset + s) % UWRAP
            /\ heap_info.heap_remaining = (snap[p].heap_remaining - s) % UWRAP
        allocates == snap[p].allocated = 0 /\ toc[i].allocated = 1
    IN  /\ lock = p
        /\ pc[p] = "a_offset"
              => SlotUntouched(p) /\ HeaderUntouched(p) /\ snap[p].wmb = 0
        /\ pc[p] = "a_size"
              => /\ toc[i].offset = snap[p].free_offset
                 /\ toc[i].size = snap[p].size /\ toc[i].allocated = 0
                 /\ HeaderUntouched(p) /\ snap[p].wmb = 0
        /\ pc[p] = "a_flag"
              => /\ slotWritten /\ toc[i].allocated = 0
                 /\ HeaderUntouched(p) /\ snap[p].wmb = 0
        /\ pc[p] = "a_free"
              => /\ slotWritten /\ toc[i].allocated = 1
                 /\ HeaderUntouched(p) /\ snap[p].wmb = 1
        /\ pc[p] = "a_remaining"
              => /\ slotWritten /\ toc[i].allocated = 1
                 /\ heap_info.free_offset = (snap[p].free_offset + s) % UWRAP
                 /\ heap_info.heap_remaining = snap[p].heap_remaining
                 /\ snap[p].wmb = 1
        /\ pc[p] = "a_wmb"
              => IF allocates
                 THEN slotWritten /\ headerWritten /\ snap[p].wmb = 1
                 ELSE SlotUntouched(p) /\ HeaderUntouched(p) /\ snap[p].wmb = 0
        /\ pc[p] = "a_unlock"
              => IF allocates
                 THEN slotWritten /\ headerWritten /\ snap[p].wmb = 2
                 ELSE SlotUntouched(p) /\ HeaderUntouched(p) /\ snap[p].wmb = 1

\* a step that writes a slot or the header is a step of a running context
\* that holds the lock before it and after it
WritesUnderLock ==
    (toc' # toc \/ heap_info' # heap_info)
        => \E p \in Procs :
              /\ Running(p) /\ pc[p] \in InsideAlloc2
              /\ lock = p /\ lock' = p

\* C14: a call of smem_alloc2 that allocates writes the slot's offset and
\* size, executes a write barrier, sets the allocated flag, advances
\* free_offset, reduces heap_remaining, executes a write barrier and releases
\* the lock, in this order; on every path that took the lock a write barrier
\* precedes the release; and no slot or header is written by a context that
\* does not hold the lock.
C14_WriteOrder ==
    /\ [](\A p \in Procs :
            (Running(p) /\ op[p] = "alloc2" /\ pc[p] \in InsideAlloc2)
                => Alloc2InOrder(p))
    /\ [][WritesUnderLock]_vars

\* C14 witness: a call that allocated an item has written the slot and the
\* header, has executed both write barriers and is about to release the lock.
C14_Witness ==
    /\ AboutToReturn(Apps)
    /\ snap[Apps].allocated = 0 /\ toc[id[Apps]].allocated = 1
    /\ toc[id[Apps]].size = 8
    /\ snap[Apps].wmb = 2
    /\ lock = Apps

\* C15 as stated: no call attempts to take the lock while the lock of its
\* processor is not initialized: smem_find takes it only with the flag it read
\* set, and smem_alloc2 never reaches remote_spin_lock_irqsave() on a lock
\* that is not initialized.
C15_NoAcquireBeforeInitAsStated ==
    \A p \in Procs :
        /\ pc[p] # "fault"
        /\ (pc[p] = "g_flag" /\ use_spinlocks[p] # 0) => LockReady(p)

\* the call of p was rejected at its entry: smem_alloc2 on a heap that is not
\* initialized or with an id past the table, smem_find with an id past it
Rejected(p) ==
    \/ pc[p] = "a_out"
    \/ op[p] = "find" /\ id[p] >= SMEM_NUM_ITEMS /\ pc[p] = "f_check"

\* a step into, inside or out of a rejected call changes no slot, nothing of
\* the header and not the lock
RejectedStepsTouchNothing ==
    (\E p \in Procs :
        /\ Rejected(p) \/ Rejected(p)'
        /\ << pc[p], op[p], id[p], size_in[p], prev[p] >>'
              # << pc[p], op[p], id[p], size_in[p], prev[p] >>)
        => toc' = toc /\ heap_info' = heap_info /\ lock' = lock

\* C17: smem_alloc2 on a heap that is not initialized or with an id of
\* SMEM_NUM_ITEMS or more, and smem_find with such an id, return no address
\* without taking the lock, and their steps leave every slot, the header and
\* the lock as they are, so that calls on other ids meet the state they would
\* have met without them.
C17_RejectedCallsTouchNothing ==
    /\ [](\A p \in Procs :
            /\ (op[p] = "alloc2" /\ (heap_info.initialized = 0
                                       \/ id[p] >= SMEM_NUM_ITEMS))
                  => pc[p] = "a_out"
            /\ pc[p] = "a_out" => ret[p] = NULL /\ lock # p
            /\ (op[p] = "find" /\ id[p] >= SMEM_NUM_ITEMS)
                  => pc[p] \in {"f_check", "idle"} /\ ret[p] = NULL /\ lock # p
            /\ heap_info.initialized = 0
                  => \A i \in Slots : toc[i] = EmptySlot)
    /\ [][RejectedStepsTouchNothing]_vars

\* C17 witness: a call of smem_alloc2 with an id past the table is returning
\* no address while the peer holds the lock inside its own allocation, which
\* goes on.
C17_Witness ==
    /\ pc[Apps] = "a_out" /\ id[Apps] >= SMEM_NUM_ITEMS
    /\ heap_info.initialized = 1
    /\ ret[Apps] = NULL
    /\ peer = "up" /\ lock = Modem /\ pc[Modem] = "a_size"

\* the allocated items outside the fixed range
DynamicItems == {i \in Slots : i > SMEM_FIXED_ITEM_LAST /\ toc[i].allocated = 1}

\* every allocated item outside the fixed range ends at or below free_offset
EndBelowFreeOffset ==
    \A i \in DynamicItems : toc[i].offset + toc[i].size <= heap_info.free_offset

\* no two allocated items outside the fixed range overlap
NoOverlap ==
    \A i, j \in DynamicItems :
        i # j => \/ toc[i].offset + toc[i].size <= toc[j].offset
                 \/ toc[j].offset + toc[j].size <= toc[i].offset

\* C18 as stated: in every state the byte ranges [offset, offset + size) of
\* any two allocated items outside the fixed range are disjoint, and each of
\* them ends at or below free_offset.
C18_DisjointRangesAsStated == NoOverlap /\ EndBelowFreeOffset

\* the call of smem_find of context p has returned
FindReturned(p) == pc[p] = "idle" /\ op[p] = "find"

\* C19: smem_find(id, size) on an item that smem_alloc2(id, size) created
\* returns the address smem_alloc2 returned for it, MSM_SHARED_RAM_BASE plus
\* the slot's offset: when the same context calls it right after its
\* smem_alloc2, and when it is called, with a size that aligns to the slot's,
\* on an item outside the fixed range that was already allocated when the
\* call was made, before the regions are registered and after.
C19_FindReturnsAllocatedAddress ==
    \A p \in Procs :
        (FindReturned(p) /\ id[p] \in Slots /\ id[p] > SMEM_FIXED_ITEM_LAST)
            => /\ \A r \in prev[p] :
                     (r.ret # NULL /\ r.size = size_in[p]) => ret[p] = r.ret
               /\ (snap[p].allocated = 1
                      /\ ALIGN8(size_in[p]) = toc[id[p]].size)
                     => ret[p] # NULL /\ ret[p] = HeapAddr(toc[id[p]].offset)

\* C19 witness: smem_find was called right after smem_alloc2 had created the
\* item and has returned the address smem_alloc2 returned.
C19_Witness ==
    /\ FindReturned(Apps)
    /\ id[Apps] > SMEM_FIXED_ITEM_LAST
    /\ prev[Apps] = {[size |-> size_in[Apps], ret |-> ret[Apps]]}
    /\ ret[Apps] # NULL
    /\ toc[id[Apps]].size = 8

\* smem_find has returned, before any region was registered, the address of
\* an item outside the fixed range
FoundBeforeRegistration ==
    /\ FindReturned(Apps)
    /\ id[Apps] \in Slots /\ id[Apps] > SMEM_FIXED_ITEM_LAST
    /\ smem_areas = << >>
    /\ snap[Apps].allocated = 1
    /\ ret[Apps] # NULL

\* the positions of smem_get_entry between its lock and its unlock
InsideGetEntry == {"g_size", "g_translate", "g_unlock"}

\* a step of a call of smem_get_entry that did not take the lock leaves the
\* lock to whoever holds it
UnlockedFindKeepsLock ==
    \A p \in Procs :
        (op[p] = "find" /\ pc[p] \in InsideGetEntry \cup {"g_flag"}
           /\ use_spinlocks[p] = 0 /\ pc'[p] # pc[p])
            => lock' = lock

\* C20: a context whose call of smem_find or smem_alloc2 has returned, on
\* whatever path, does not hold the lock; inside smem_get_entry the context
\* holds the lock exactly if the flag it read at entry was set, and a call
\* that did not take the lock does not release it, whatever
\* spinlocks_initialized has become meanwhile.
C20_LockNotHeldAtReturn ==
    /\ [](\A p \in Procs :
            /\ pc[p] \in {"idle", "f_check", "a_out"} => lock # p
            /\ (op[p] = "find" /\ pc[p] \in InsideGetEntry)
                  => (lock = p <=> use_spinlocks[p] # 0))
    /\ [][UnlockedFindKeepsLock]_vars

\* C20 witness: smem_get_entry, entered before the lock was initialized, has
\* returned after it was, and the peer still holds the lock it took
\* meanwhile.
C20_Witness ==
    /\ pc[Apps] = "f_check" /\ op[Apps] = "find"
    /\ id[Apps] < SMEM_NUM_ITEMS
    /\ use_spinlocks[Apps] = 0
    /\ spinlocks_initialized = 1
    /\ peer = "up" /\ lock = Modem

(***************************************************************************)
(* Properties of smem_phys_to_virt (specification SpecXlate).              *)
(***************************************************************************)
\* the regions of the registry whose physical span holds address a
RegionsHolding(a) ==
    {i \in 1 .. Len(smem_areas) :
        /\ smem_areas[i].phys_addr <= a
        /\ a < smem_areas[i].phys_addr + smem_areas[i].size}

\* C5 as stated: under a registry of non-overlapping regions the translation
\* of (base, offset) is virt + (base - phys) + offset of the region holding
\* base when base + offset lies in that region too, and a failure otherwise.
C5_TranslateAsStated ==
    (xl.pc = "done" /\ smem_areas = Areas)
        => IF \E i \in RegionsHolding(xl.base) : i \in RegionsHolding(xl.base + xl.offset)
           THEN \E i \in RegionsHolding(xl.base) :
                    xl.ret = smem_areas[i].virt_addr
                               + (xl.base - smem_areas[i].phys_addr) + xl.offset
           ELSE xl.ret = NULL

\* the virtual bases a result can be an offset from
VirtBases ==
    IF smem_areas = << >> THEN {MSM_SHARED_RAM_BASE}
    ELSE {smem_areas[i].virt_addr : i \in 1 .. Len(smem_areas)}

\* C6: a translation whose base + offset exceeds the word fails, and every
\* address returned is the exact sum, within the word, of offset and the
\* virtual base of a region (or of the default mapping).
C6_NoWrappedAddress ==
    xl.pc = "done"
        => /\ xl.base + xl.offset > UMAX => xl.ret = NULL
           /\ xl.ret # NULL
                => \E v \in VirtBases :
                      xl.ret = v + xl.offset /\ v + xl.offset <= UMAX

\* C6 witness: base + offset lies in a region and fits the word, offset added
\* to that region's virtual base does not, and the translation failed.
C6_Witness ==
    /\ xl.pc = "done"
    /\ xl.base + xl.offset <= UMAX
    /\ \E i \in RegionsHolding(xl.base) :
         /\ i \in RegionsHolding(xl.base + xl.offset)
         /\ smem_areas[i].virt_addr + xl.offset > UMAX
    /\ xl.ret = NULL

==========================================================================
